---- MODULE Spec2Model ----
(***************************************************************************)
(* A model of keras.backend.theano_backend.rnn: the iteration of a step    *)
(* function over the time axis of a tensor, with carried states, optional  *)
(* masking and optional reversal.                                          *)
(*                                                                         *)
(* A tensor is a record [dims, val].  dims is the tensor's type and shape: *)
(* one [size, bc] per axis, bc being Theano's "broadcastable" flag (the    *)
(* axis is statically known to have size 1).  val holds the values over    *)
(* the leading (samples/time) axes; the feature axes carry one             *)
(* representative element, because every operation of rnn is elementwise   *)
(* over them and the mask is broadcast across them.                        *)
(***************************************************************************)
EXTENDS Integers, Sequences, FiniteSets, TLC

\* ------------------------------------------------------------------ bounds
MaxSamples == 2
MaxTime == 3
MaxCells == 6
MaxRank == 4
MaxStates == 1

\* ----------------------------------------------------------------- tensors
Max(a, b) == IF a >= b THEN a ELSE b

Dim(n, b) == [size |-> n, bc |-> b]

NoTensor == [dims |-> <<>>, val |-> <<>>]

\* The dimshuffle pattern entry 'x' (a new broadcastable axis).
X == -1

Ndim(x) == Len(x.dims)

\* Python's range(a, b) as a list.
Range(a, b) == [i \in 1..Max(b - a, 0) |-> a + i - 1]

\* Python's list.insert(i, v) for 0 <= i.
Insert(l, i, v) ==
    IF i >= Len(l) THEN Append(l, v)
    ELSE SubSeq(l, 1, i) \o <<v>> \o SubSeq(l, i + 1, Len(l))

\* x[i] along the first axis, i counted from 1 here.
Index(x, i) == [dims |-> Tail(x.dims), val |-> x.val[i]]

Transpose(v) == [t \in 1..Len(v[1]) |-> [s \in 1..Len(v) |-> v[s][t]]]

\* x.dimshuffle(pattern): the axes of x in the order of pattern, X a new
\* broadcastable axis.  The values are stored over the first two axes only,
\* so only their exchange moves values.
DimshuffleOk(x, pattern) ==
    /\ \A i \in 1..Len(pattern) : pattern[i] = X \/ pattern[i] < Ndim(x)
    /\ \A a \in 1..Ndim(x) :
          x.dims[a].bc \/ \E i \in 1..Len(pattern) : pattern[i] = a - 1

dimshuffle(x, pattern) ==
    [dims |-> [i \in 1..Len(pattern) |->
                 IF pattern[i] = X THEN Dim(1, TRUE) ELSE x.dims[pattern[i] + 1]],
     val |-> IF Len(pattern) >= 2 /\ pattern[1] = 1 /\ pattern[2] = 0
             THEN Transpose(x.val) ELSE x.val]

expand_dims(x, dim) ==
    LET pattern == Range(0, Ndim(x))
        d == IF dim < 0
             THEN (IF Ndim(x) = 0 THEN 0 ELSE (dim % Ndim(x)) + 1)
             ELSE dim
    IN  dimshuffle(x, Insert(pattern, d, X))

\* T.squeeze(x): the broadcastable axes are removed.
T_squeeze(x) == [dims |-> SelectSeq(x.dims, LAMBDA d : ~d.bc), val |-> x.val]

\* T.unbroadcast(x, 0, 1): axes 0 and 1 are made non-broadcastable.
T_unbroadcast(x, a, b) ==
    [dims |-> [i \in 1..Ndim(x) |->
                 IF i - 1 \in {a, b} THEN Dim(x.dims[i].size, FALSE) ELSE x.dims[i]],
     val |-> x.val]

\* A seed that keeps the step function's output: the * 0 left out.
TimesZero_kept(x) == x

\* x * 0 on a (samples, ...) slice.
TimesZero(x) == [dims |-> x.dims, val |-> [s \in DOMAIN x.val |-> x.val[s] * 0]]

\* The type of an elementwise result: an axis is broadcastable only when it
\* is so in every operand.
ElemwiseDims(a, b) ==
    [i \in 1..Len(a) |-> Dim(Max(a[i].size, b[i].size), a[i].bc /\ b[i].bc)]

\* T.switch(cond, a, b) on (samples, ...) slices.
T_switch(cond, a, b) ==
    [dims |-> ElemwiseDims(cond.dims, ElemwiseDims(a.dims, b.dims)),
     val |-> [s \in DOMAIN a.val |-> IF cond.val[s] # 0 THEN a.val[s] ELSE b.val[s]]]

\* ------------------------------------------------------------------- state
VARIABLES
    pc,               \* where the call of rnn stands
    step_function,    \* the caller's step function: how many states it returns
    caller_inputs,    \* the tensors the caller passed
    caller_mask,
    initial_states,
    go_backwards,
    inputs,           \* rnn's local names
    mask,
    ndim,
    axes,
    initial_output,
    k,                \* scan: iterations done
    carry,            \* scan: the values fed back into the next iteration
    acc,              \* scan: per output, the slices stacked so far
    results,
    outputs,
    last_output,
    states,
    calls,            \* every evaluation of step_function, in order
    nsym,             \* how many times rnn and scan called step_function
    err

vars == <<pc, step_function, caller_inputs, caller_mask, initial_states,
          go_backwards, inputs, mask, ndim, axes, initial_output, k, carry,
          acc, results, outputs, last_output, states, calls, nsym, err>>

\* ------------------------------------------------------- the caller's side
NoMask == [present |-> FALSE, dims |-> <<>>, val |-> <<>>]

\* The last feature axis of the input: a plain axis, an axis that happens to
\* have size 1, an axis statically of size 1 (expand_dims, keepdims).
FeatureAxes == {Dim(2, FALSE), Dim(1, FALSE), Dim(1, TRUE)}

InputDims(S, T, nd, f) ==
    IF nd < 3 THEN SubSeq(<<Dim(S, FALSE), Dim(T, FALSE)>>, 1, nd)
    ELSE <<Dim(S, FALSE), Dim(T, FALSE)>> \o [i \in 1..(nd - 3) |-> Dim(2, FALSE)] \o <<f>>

\* Every cell of the input is different: sample 1 is 1, 2, 3, ...
InputVal(S, T) == [s \in 1..S |-> [t \in 1..T |-> 10 * (s - 1) + t]]

\* A state has the shape of one time slice of the input.
SliceDims(d) == IF Len(d) < 2 THEN d ELSE <<d[1]>> \o SubSeq(d, 3, Len(d))

StateVal(S, i) == [s \in 1..S |-> 100 * i + s]

\* A mask of rank r over (samples, time): the axes past the second are
\* broadcastable singletons.
MaskDims(S, T, r) ==
    IF r < 2 THEN SubSeq(<<Dim(S, FALSE), Dim(T, FALSE)>>, 1, r)
    ELSE <<Dim(S, FALSE), Dim(T, FALSE)>> \o [i \in 1..(r - 2) |-> Dim(1, TRUE)]

\* The values of a mask whose rank rnn rejects are never read: one stands
\* for all of them.
Masks(S, T, nd) ==
    {NoMask}
    \cup {[present |-> TRUE, dims |-> MaskDims(S, T, r), val |-> v] :
            r \in (IF nd >= 3 THEN {nd - 1, nd} ELSE {}),
            v \in [1..S -> [1..T -> {0, 1}]]}
    \cup {[present |-> TRUE, dims |-> MaskDims(S, T, r),
           val |-> [s \in 1..S |-> [t \in 1..T |-> 1]]] :
            r \in (IF nd >= 3 THEN {nd - 2, nd + 1} ELSE (nd - 2)..(nd + 1))}

\* The step function: output = input + the sum of the states, and the i-th
\* new state = the i-th state + (i+1) * input.  With no state it is the
\* identity.  step_function.returns is the length of the list it returns.
RECURSIVE SumStates(_, _)
SumStates(sts, s) ==
    IF sts = <<>> THEN 0 ELSE Head(sts).val[s] + SumStates(Tail(sts), s)

StepApply(input, sts) ==
    [output |-> [dims |-> input.dims,
                 val |-> [s \in DOMAIN input.val |-> input.val[s] + SumStates(sts, s)]],
     new_states |-> [i \in 1..step_function.returns |->
                       [dims |-> input.dims,
                        val |-> [s \in DOMAIN input.val |->
                                   (IF i <= Len(sts) THEN sts[i].val[s] ELSE 0)
                                   + (i + 1) * input.val[s]]]]]

Vals(sts) == [i \in 1..Len(sts) |-> sts[i].val]

CallRecord(kind, t, input, sts, r) ==
    [kind |-> kind, t |-> t, input |-> input.val, states |-> Vals(sts),
     output |-> r.output.val, new_states |-> Vals(r.new_states)]

Init ==
    \E S \in 1..MaxSamples, T \in 1..MaxTime, nd \in 2..MaxRank, f \in FeatureAxes,
       n \in 0..MaxStates, d \in {-1, 0, 1}, gb \in BOOLEAN :
      \E m \in Masks(S, T, nd) :
        /\ S * T <= MaxCells
        /\ n + d >= 0
        /\ nd < 3 => f = Dim(2, FALSE)
        /\ pc = "start"
        /\ step_function = [returns |-> n + d]
        /\ caller_inputs = [dims |-> InputDims(S, T, nd, f), val |-> InputVal(S, T)]
        /\ caller_mask = m
        /\ initial_states =
             [i \in 1..n |-> [dims |-> SliceDims(InputDims(S, T, nd, f)),
                              val |-> StateVal(S, i)]]
        /\ go_backwards = gb
        /\ inputs = caller_inputs
        /\ mask = [dims |-> m.dims, val |-> m.val]
        /\ ndim = 0
        /\ axes = <<>>
        /\ initial_output = NoTensor
        /\ k = 0
        /\ carry = <<>>
        /\ acc = <<>>
        /\ results = <<>>
        /\ outputs = NoTensor
        /\ last_output = NoTensor
        /\ states = <<>>
        /\ calls = <<>>
        /\ nsym = 0
        /\ err = "none"

\* ------------------------------------------------------------------- rnn
\* The rank test off by one.
RankOk_two(n) == n >= 2

\* assert ndim >= 3
RankOk(n) == n >= 3

\* ndim = inputs.ndim; assert ndim >= 3; the input is made time-major.
rnn_begin ==
    /\ pc = "start"
    /\ ndim' = Ndim(inputs)
    /\ IF RankOk(ndim')
       THEN /\ axes' = <<1, 0>> \o Range(2, ndim')
            /\ inputs' = dimshuffle(inputs, axes')
            /\ pc' = IF caller_mask.present THEN "mask" ELSE "scan"
            /\ err' = err
       ELSE /\ pc' = "error"
            /\ err' = "AssertionError"
            /\ UNCHANGED <<axes, inputs>>
    /\ UNCHANGED <<step_function, caller_inputs, caller_mask, initial_states,
                   go_backwards, mask, initial_output, k, carry, acc, results,
                   outputs, last_output, states, calls, nsym>>

\* A rank test that lets a mask of higher rank through.
MaskRankOk_atleast(m, n) == Ndim(m) >= n

\* assert mask.ndim == ndim
MaskRankOk(m, n) == Ndim(m) = n

\* A seed taken from the first slice the loop visits.
inputs_0_first_visited == Index(inputs, IF go_backwards THEN Len(inputs.val) ELSE 1)

\* inputs[0] of the time-major input.
inputs_0 == Index(inputs, 1)

\* if mask is not None: the mask gets the input's rank and layout, and the
\* all-zero first "previous output" is built from one call of the step
\* function on the first time slice.
rnn_mask ==
    /\ pc = "mask"
    /\ LET m1 == IF Ndim(mask) = ndim - 1 THEN expand_dims(mask, -1) ELSE mask
       IN  IF MaskRankOk(m1, ndim)
           THEN LET r == StepApply(inputs_0, initial_states)
                IN  /\ mask' = dimshuffle(m1, axes)
                    /\ initial_output' = T_unbroadcast(TimesZero(r.output), 0, 1)
                    /\ calls' = Append(calls, CallRecord("seed", 0, inputs_0,
                                                         initial_states, r))
                    /\ nsym' = nsym + 1
                    /\ pc' = "scan"
                    /\ err' = err
           ELSE /\ mask' = m1
                /\ pc' = "error"
                /\ err' = "AssertionError"
                /\ UNCHANGED <<initial_output, calls, nsym>>
    /\ UNCHANGED <<step_function, caller_inputs, caller_mask, initial_states,
                   go_backwards, inputs, ndim, axes, k, carry, acc, results,
                   outputs, last_output, states>>

Min(a, b) == IF a <= b THEN a ELSE b

\* A masked step that zeroes where it should keep: output * mask.
step_masked_zeroing(input, m, output_tm1, sts) ==
    LET r == StepApply(input, sts)
        output == T_switch(m, r.output, TimesZero(output_tm1))
        return_states == [i \in 1..Min(Len(sts), Len(r.new_states)) |->
                            T_switch(m, r.new_states[i], TimesZero(sts[i]))]
    IN  [ret |-> <<output>> \o return_states,
         call |-> CallRecord("loop", 0, input, sts, r)]

\* A masked step with the branches of the switch exchanged.
step_masked_swapped(input, m, output_tm1, sts) ==
    LET r == StepApply(input, sts)
        output == T_switch(m, output_tm1, r.output)
        return_states == [i \in 1..Min(Len(sts), Len(r.new_states)) |->
                            T_switch(m, sts[i], r.new_states[i])]
    IN  [ret |-> <<output>> \o return_states,
         call |-> CallRecord("loop", 0, input, sts, r)]

\* _step of the masked branch: the previous output and the previous states are
\* kept where the mask is zero.  zip stops at the shorter list.
step_masked(input, m, output_tm1, sts) ==
    LET r == StepApply(input, sts)
        output == T_switch(m, r.output, output_tm1)
        return_states == [i \in 1..Min(Len(sts), Len(r.new_states)) |->
                            T_switch(m, r.new_states[i], sts[i])]
    IN  [ret |-> <<output>> \o return_states,
         call |-> CallRecord("loop", 0, input, sts, r)]

\* An unmasked step that hands back the states it was given.
step_unmasked_stale(input, sts) ==
    LET r == StepApply(input, sts)
    IN  [ret |-> <<r.output>> \o sts,
         call |-> CallRecord("loop", 0, input, sts, r)]

\* _step of the unmasked branch.
step_unmasked(input, sts) ==
    LET r == StepApply(input, sts)
    IN  [ret |-> <<r.output>> \o r.new_states,
         call |-> CallRecord("loop", 0, input, sts, r)]

\* A scan that ignores go_backwards.
SeqIndex_forward(pos, T) == pos

\* theano.scan(..., go_backwards=go_backwards): the index into the sequences
\* at loop position pos (1..T).
SeqIndex(pos, T) == IF go_backwards THEN T + 1 - pos ELSE pos

\* A scan that reverses the input and reads the mask in loop order.
StepAt_mask_in_loop_order(i, c) ==
    IF caller_mask.present
    THEN step_masked(Index(inputs, i), Index(mask, k + 1), c[1], Tail(c))
    ELSE step_unmasked(Index(inputs, i), c)

\* What _step returns for the slices at index i and the carried values c,
\* with the call of the step function it made.
StepAt(i, c) ==
    IF caller_mask.present
    THEN step_masked(Index(inputs, i), Index(mask, i), c[1], Tail(c))
    ELSE step_unmasked(Index(inputs, i), c)

\* initial_states.insert(0, initial_output): the caller's list is written.
ListPlus_inplace(a, b) == [result |-> a \o b, left |-> a, right |-> a \o b]

\* a + b on Python lists: a new list; the operands are left as they are.
ListPlus(a, b) == [result |-> a \o b, left |-> a, right |-> b]

\* theano.scan is called: it calls _step once to build the loop body and
\* refuses a body whose number of outputs is not that of outputs_info.
\* outputs_info is a new list in the masked branch and the caller's list,
\* which scan copies before it works on it, in the unmasked one.
scan_begin ==
    /\ pc = "scan"
    /\ LET info == IF caller_mask.present
                   THEN ListPlus(<<initial_output>>, initial_states)
                   ELSE [result |-> initial_states, left |-> <<>>,
                         right |-> initial_states]
           outputs_info == info.result
           n_outs == 1 + Len(initial_states)
           body == StepAt(1, outputs_info).ret
       IN  /\ nsym' = nsym + 1
           /\ initial_states' = info.right
           /\ IF Len(body) = n_outs
              THEN /\ pc' = "loop"
                   /\ carry' = outputs_info
                   /\ acc' = [j \in 1..n_outs |->
                                [dims |-> <<Dim(0, FALSE)>> \o body[j].dims, val |-> <<>>]]
                   /\ err' = err
              ELSE /\ pc' = "error"
                   /\ err' = "ValueError"
                   /\ UNCHANGED <<carry, acc>>
    /\ UNCHANGED <<step_function, caller_inputs, caller_mask,
                   go_backwards, inputs, mask, ndim, axes, initial_output, k,
                   results, outputs, last_output, states, calls>>

\* A loop that runs one step short when there are several.
n_steps_short == Max(1, Len(inputs.val) - 1)

\* theano.scan with no n_steps: as many iterations as the sequences are long.
n_steps == Len(inputs.val)

\* One iteration of the scan loop.
scan_step ==
    /\ pc = "loop"
    /\ k < n_steps
    /\ LET i == SeqIndex(k + 1, Len(inputs.val))
           step == StepAt(i, carry)
           out == step.ret
       IN  /\ k' = k + 1
           /\ carry' = IF caller_mask.present THEN out ELSE Tail(out)
           /\ acc' = [j \in 1..Len(acc) |->
                        [dims |-> <<Dim(k + 1, FALSE)>> \o Tail(acc[j].dims),
                         val |-> Append(acc[j].val, out[j].val)]]
           /\ calls' = Append(calls, [step.call EXCEPT !.t = i - 1])
    /\ UNCHANGED <<pc, step_function, caller_inputs, caller_mask, initial_states,
                   go_backwards, inputs, mask, ndim, axes, initial_output,
                   results, outputs, last_output, states, nsym, err>>

\* x[0] taken for x[-1].
IndexLast_first(x) == Index(x, 1)

\* x[-1] along the first axis.
IndexLast(x) == Index(x, Len(x.val))

\* The lines after the loops: scan returned a list, or the one result when
\* there is only one; rnn squeezes, takes the last output, and makes the
\* outputs batch-major again.
Assemble(res) ==
    LET is_list == Len(res) > 1
        outputs0 == IF is_list THEN res[1] ELSE res[1]
        states0 == IF is_list THEN Tail(res) ELSE <<>>
        squeezed == T_squeeze(outputs0)
        axes1 == <<1, 0>> \o Range(2, Ndim(squeezed))
    IN  [ok |-> DimshuffleOk(squeezed, axes1),
         axes |-> axes1,
         last_output |-> IndexLast(squeezed),
         outputs |-> dimshuffle(squeezed, axes1),
         states |-> [i \in 1..Len(states0) |-> T_squeeze(IndexLast(states0[i]))]]

\* The loop is over: rnn returns (last_output, outputs, states).
rnn_return ==
    /\ pc = "loop"
    /\ k = n_steps
    /\ results' = acc
    /\ LET r == Assemble(acc)
       IN  /\ axes' = r.axes
           /\ IF r.ok
              THEN /\ last_output' = r.last_output
                   /\ outputs' = r.outputs
                   /\ states' = r.states
                   /\ pc' = "done"
                   /\ err' = err
              ELSE /\ pc' = "error"
                   /\ err' = "ValueError"
                   /\ UNCHANGED <<last_output, outputs, states>>
    /\ UNCHANGED <<step_function, caller_inputs, caller_mask, initial_states,
                   go_backwards, inputs, mask, ndim, initial_output, k, carry,
                   acc, calls, nsym>>

Next ==
    \/ rnn_begin
    \/ rnn_mask
    \/ scan_begin
    \/ scan_step
    \/ rnn_return

Spec == Init /\ [][Next]_vars

\* rnn is one synchronous thread of control: nothing suspends it, so a step
\* that can be taken is taken.
FairSpec == Spec /\ WF_vars(Next)

\* ------------------------------------------------------------- the claims
NSamples == Len(caller_inputs.val)
NTime == Len(caller_inputs.val[1])
Masked == caller_mask.present

\* The time index (from 1) the loop visits at loop position p (from 1).
Visited(p) == IF go_backwards THEN NTime + 1 - p ELSE p

\* The call of the step function made by the loop at position p.
LoopCall(p) == calls[p + (IF Masked THEN 1 ELSE 0)]

\* What the loop emitted at position p, and the i-th state after it.
Emitted(p) == acc[1].val[p]
StateAfter(i, p) == acc[1 + i].val[p]

NStates == Len(initial_states)

\* C1 (mask freeze law): in a masked run, at every loop position p > 1 whose
\* mask entry for sample s is zero, the output emitted for s equals the one
\* emitted at p - 1 and every carried state of s keeps its value, in the loop
\* and in what rnn returns.
C1_MaskFreeze ==
    (Masked /\ pc \in {"loop", "done"}) =>
        \A p \in 2..k : \A s \in 1..NSamples :
            caller_mask.val[s][Visited(p)] = 0 =>
                /\ Emitted(p)[s] = Emitted(p - 1)[s]
                /\ \A i \in 1..NStates : StateAfter(i, p)[s] = StateAfter(i, p - 1)[s]
                /\ pc = "done" =>
                     /\ outputs.val[s][p] = outputs.val[s][p - 1]
                     /\ p = NTime =>
                          \A i \in 1..NStates : states[i].val[s] = StateAfter(i, p - 1)[s]

\* A finished masked run with a masked position where the step function
\* returned another output and another state than the ones kept.
C1_Witness ==
    /\ pc = "done"
    /\ Masked
    /\ NStates >= 1
    /\ \E p \in 2..k : \E s \in 1..NSamples :
          /\ caller_mask.val[s][Visited(p)] = 0
          /\ LoopCall(p).output[s] # Emitted(p - 1)[s]
          /\ LoopCall(p).new_states[1][s] # StateAfter(1, p - 1)[s]
          /\ outputs.val[s][p] = outputs.val[s][p - 1]

\* The run with no mask on the same step function, input, initial states
\* and direction: the unmasked loop, then the lines after the loops.
RECURSIVE ScanUnmasked(_)
ScanUnmasked(p) ==
    IF p = 0
    THEN [carry |-> initial_states, acc |-> [j \in 1..(1 + NStates) |-> <<>>]]
    ELSE LET prev == ScanUnmasked(p - 1)
             out == step_unmasked(Index(inputs, SeqIndex(p, NTime)), prev.carry).ret
         IN  [carry |-> Tail(out),
              acc |-> [j \in 1..(1 + NStates) |-> Append(prev.acc[j], out[j])]]

UnmaskedRun ==
    LET stacked == ScanUnmasked(NTime).acc
    IN  Assemble([j \in 1..(1 + NStates) |->
                    [dims |-> <<Dim(NTime, FALSE)>> \o stacked[j][1].dims,
                     val |-> [p \in 1..NTime |-> stacked[j][p].val]]])

AllNonzero == \A s \in 1..NSamples : \A t \in 1..NTime : caller_mask.val[s][t] # 0

C4_OutputsByTimeIndex ==
    (pc = "done" /\ ~Masked) =>
        \A s \in 1..NSamples : \A t \in 1..NTime :
            \E c \in 1..Len(calls) :
                /\ calls[c].t = t - 1
                /\ outputs.val[s][t] = calls[c].output[s]

\* C5 (last-output consistency): in every finished run last_output is the
\* slice outputs[:, -1, ...] of the returned outputs, and when the mask is
\* zero at the last visited step it is the output kept from the step before.
C5_LastOutputConsistency ==
    pc = "done" =>
        /\ last_output.dims = SliceDims(outputs.dims)
        /\ \A s \in 1..NSamples :
              /\ last_output.val[s] = outputs.val[s][NTime]
              /\ (Masked /\ NTime >= 2 /\ caller_mask.val[s][Visited(NTime)] = 0) =>
                    last_output.val[s] = outputs.val[s][NTime - 1]

\* A finished masked run whose last visited step is masked for a sample: the
\* last output is not what the step function returned there.
C5_Witness ==
    /\ pc = "done"
    /\ Masked
    /\ NTime >= 2
    /\ \E s \in 1..NSamples :
          /\ caller_mask.val[s][Visited(NTime)] = 0
          /\ last_output.val[s] # LoopCall(NTime).output[s]
          /\ last_output.val[s] = outputs.val[s][NTime]
          /\ outputs.val[s][NTime] # outputs.val[s][1]

\* C6 (unmasked fold): without a mask the step function is called once per
\* loop position, on the slice visited there and on the states the call
\* before returned (the initial states first); what it returns is the output
\* at that position, and the final states are those of the last call.
C6_UnmaskedFold ==
    (~Masked /\ pc \in {"loop", "done"}) =>
        /\ Len(calls) = k
        /\ \A p \in 1..k :
              /\ calls[p].input = [s \in 1..NSamples |-> caller_inputs.val[s][Visited(p)]]
              /\ calls[p].states =
                    (IF p = 1 THEN Vals(initial_states) ELSE calls[p - 1].new_states)
              /\ Emitted(p) = calls[p].output
              /\ pc = "done" =>
                    \A s \in 1..NSamples : outputs.val[s][p] = calls[p].output[s]
        /\ pc = "done" =>
              /\ k = NTime
              /\ Vals(states) = calls[NTime].new_states

\* A finished unmasked run of three steps or more whose state moved.
C6_Witness ==
    /\ pc = "done"
    /\ ~Masked
    /\ NStates >= 1
    /\ NTime >= 3
    /\ calls[2].states = calls[1].new_states
    /\ calls[2].states # Vals(initial_states)
    /\ Vals(states) = calls[NTime].new_states
    /\ Vals(states) # calls[NTime].states

Sizes(d) == [i \in 1..Len(d) |-> d[i].size]

\* C7 (shape preservation): in every finished run the returned outputs have
\* the shape (samples, time, feature shape of the step output) and every
\* final state has the shape of its initial state.
C7_ShapePreservation ==
    pc = "done" =>
        /\ Sizes(outputs.dims) =
              <<NSamples, NTime>> \o Sizes(Tail(SliceDims(caller_inputs.dims)))
        /\ \A i \in 1..Len(states) :
              Sizes(states[i].dims) = Sizes(initial_states[i].dims)

\* C8 (rank below 3): a call whose input has rank below 3 fails on the
\* assertion, before any call of the step function and before the axes are
\* reordered, and returns nothing.
C8_LowRankRejected ==
    Ndim(caller_inputs) < 3 =>
        /\ pc \in {"start", "error"}
        /\ pc = "start" => ENABLED rnn_begin
        /\ pc = "error" => err = "AssertionError"
        /\ nsym = 0
        /\ calls = <<>>
        /\ inputs = caller_inputs
        /\ axes = <<>>
        /\ results = <<>>
        /\ outputs = NoTensor
        /\ last_output = NoTensor
        /\ states = <<>>

\* A call on a rank 2 input, made with a mask, has failed.
C8_Witness ==
    /\ pc = "error"
    /\ err = "AssertionError"
    /\ Ndim(caller_inputs) = 2
    /\ Masked
    /\ nsym = 0

C10_StateLengthMismatchFails ==
    step_function.returns # NStates =>
        /\ pc \in {"start", "mask", "scan", "error"}
        /\ k = 0
        /\ Len(carry) = 0
        /\ outputs = NoTensor

\* What the caller built: state i of sample s is 100 * i + s, with the shape
\* of one time slice of the input.
CallerStates(n) ==
    [i \in 1..n |-> [dims |-> SliceDims(caller_inputs.dims),
                     val |-> StateVal(NSamples, i)]]

\* C11 (frame of initial_states): no step of a call of rnn, masked or not,
\* forward or backward, ending in a result or in an error, changes the
\* caller's initial_states: its length, its order and its elements stay.
C11_InitialStatesFrame == [][initial_states' = initial_states]_vars

\* A finished masked backward run whose carried state moved away from the
\* initial state, which is still what the caller built.
C11_Witness ==
    /\ pc = "done"
    /\ Masked
    /\ go_backwards
    /\ NStates = 1
    /\ Vals(states) # Vals(initial_states)
    /\ carry # <<initial_output>> \o initial_states
    /\ initial_states = CallerStates(1)

\* C12 (mask of shape (samples, time)): with an input of any rank from 3 up,
\* a mask of rank 2 passes the rank test of rnn and the masked run goes on to
\* its result (the step function returning as many states as it is given).
C12_Rank2MaskAccepted ==
    (Masked /\ Ndim(caller_inputs) >= 3 /\ Len(caller_mask.dims) = 2
        /\ step_function.returns = NStates) =>
        /\ pc # "error"
        /\ pc \notin {"start", "mask"} => Ndim(mask) = Ndim(caller_inputs)

\* The mask of sample s is zero at every loop position 1..q.
MaskedPrefix(s, q) == \A p \in 1..q : caller_mask.val[s][Visited(p)] = 0

\* C13 (masked prefix): in a masked run, while the mask of a sample has been
\* zero at every loop position so far, the output emitted for it is the zero
\* of the seed and its carried states are the initial states; the first
\* position with a nonzero mask is the first where the output and the states
\* of the step function, called on the initial states, are taken.
C13_MaskedPrefixKeepsSeed ==
    (Masked /\ pc \in {"loop", "done"}) =>
        \A q \in 1..k : \A s \in 1..NSamples :
            /\ MaskedPrefix(s, q) =>
                  /\ Emitted(q)[s] = 0
                  /\ Emitted(q)[s] = initial_output.val[s]
                  /\ \A i \in 1..NStates : StateAfter(i, q)[s] = initial_states[i].val[s]
                  /\ pc = "done" => outputs.val[s][q] = 0
                  /\ (pc = "done" /\ q = NTime) =>
                        /\ last_output.val[s] = 0
                        /\ \A i \in 1..NStates : states[i].val[s] = initial_states[i].val[s]
            /\ (MaskedPrefix(s, q - 1) /\ caller_mask.val[s][Visited(q)] # 0) =>
                  /\ Emitted(q)[s] = LoopCall(q).output[s]
                  /\ \A i \in 1..NStates :
                        /\ LoopCall(q).states[i][s] = initial_states[i].val[s]
                        /\ StateAfter(i, q)[s] = LoopCall(q).new_states[i][s]

\* A finished masked run with a sample masked at the first two positions of
\* the loop and not at the third: two zeros, then the step function's output
\* on the untouched initial state.
C13_Witness ==
    /\ pc = "done"
    /\ Masked
    /\ NStates = 1
    /\ NTime = 3
    /\ \E s \in 1..NSamples :
          /\ MaskedPrefix(s, 2)
          /\ caller_mask.val[s][Visited(3)] # 0
          /\ LoopCall(1).output[s] # 0
          /\ LoopCall(2).new_states[1][s] # initial_states[1].val[s]
          /\ outputs.val[s][1] = 0
          /\ outputs.val[s][2] = 0
          /\ outputs.val[s][3] = LoopCall(3).output[s]
          /\ outputs.val[s][3] # 0
          /\ LoopCall(3).states[1][s] = initial_states[1].val[s]
          /\ states[1].val[s] # initial_states[1].val[s]

\* C14 (mask alignment): at every loop position of a masked run, forward or
\* backward, the step function is called on the input slice of some time
\* index t and the choice between its result and the values kept from the
\* position before is made, per sample, by the mask entry of the same t.
C14_MaskAligned ==
    (Masked /\ pc \in {"loop", "done"}) =>
        \A p \in 1..k : \A s \in 1..NSamples :
            LET t == LoopCall(p).t + 1
                keep == caller_mask.val[s][t] = 0
            IN  /\ t = Visited(p)
                /\ mask.val[t][s] = caller_mask.val[s][t]
                /\ LoopCall(p).input[s] = caller_inputs.val[s][t]
                /\ Emitted(p)[s] =
                      (IF ~keep THEN LoopCall(p).output[s]
                       ELSE IF p = 1 THEN initial_output.val[s] ELSE Emitted(p - 1)[s])
                /\ \A i \in 1..NStates :
                      StateAfter(i, p)[s] =
                        (IF ~keep THEN LoopCall(p).new_states[i][s]
                         ELSE IF p = 1 THEN initial_states[i].val[s]
                         ELSE StateAfter(i, p - 1)[s])

\* A finished backward masked run over three time indices whose mask is 0 at
\* time index 0 and 1 at time index 2 for a sample: the first loop position
\* (time index 2) took the step function's output, the last one (time index
\* 0) kept the output of the position before.
C14_Witness ==
    /\ pc = "done"
    /\ Masked
    /\ go_backwards
    /\ NTime = 3
    /\ NStates = 1
    /\ \E s \in 1..NSamples :
          /\ caller_mask.val[s][1] = 0
          /\ caller_mask.val[s][3] # 0
          /\ LoopCall(1).t = 2
          /\ LoopCall(1).input[s] = caller_inputs.val[s][3]
          /\ outputs.val[s][1] = LoopCall(1).output[s]
          /\ LoopCall(3).t = 0
          /\ outputs.val[s][3] = outputs.val[s][2]
          /\ outputs.val[s][3] # LoopCall(3).output[s]

\* C15 (the seed): a masked run calls the step function for the seed once,
\* before the loop, on the slice of time index 0 whatever the direction and
\* on the initial states; the seed is that output times zero; the states of
\* that call are dropped, the loop starting from the initial states.
C15_SeedOnce ==
    (Masked /\ pc \in {"scan", "loop", "done"}) =>
        /\ Len(calls) = 1 + k
        /\ calls[1].kind = "seed"
        /\ calls[1].t = 0
        /\ calls[1].input = [s \in 1..NSamples |-> caller_inputs.val[s][1]]
        /\ calls[1].states = Vals(initial_states)
        /\ \A c \in 2..Len(calls) : calls[c].kind = "loop"
        /\ initial_output.val = [s \in 1..NSamples |-> calls[1].output[s] * 0]
        /\ initial_output.val = [s \in 1..NSamples |-> 0]
        /\ (pc = "loop" /\ k = 0) => carry = <<initial_output>> \o initial_states
        /\ k >= 1 => LoopCall(1).states = Vals(initial_states)

\* A backward masked run of several steps about to enter its loop: one call
\* was made, on time index 0, its output was not zero, the states it
\* returned are not the ones carried into the loop.
C15_Witness ==
    /\ pc = "loop"
    /\ k = 0
    /\ Masked
    /\ go_backwards
    /\ NTime >= 2
    /\ NStates = 1
    /\ Len(calls) = 1
    /\ calls[1].kind = "seed"
    /\ calls[1].input[1] = caller_inputs.val[1][1]
    /\ calls[1].input[1] # caller_inputs.val[1][NTime]
    /\ calls[1].output[1] # 0
    /\ calls[1].new_states # Vals(initial_states)
    /\ Vals(Tail(carry)) = Vals(initial_states)
    /\ carry[1].val[1] = 0

\* A call rnn takes: input of rank 3 or more, no mask or a mask of the rank
\* of the input or one less, a step function that returns as many states as
\* it is given.
ValidCall ==
    /\ Ndim(caller_inputs) >= 3
    /\ Masked => Len(caller_mask.dims) \in {Ndim(caller_inputs) - 1, Ndim(caller_inputs)}
    /\ step_function.returns = NStates

\* The loop of a run so far: one call of the step function per position, on
\* time indices that go up by one from 0, or down by one from T - 1.
LoopInOrder ==
    /\ pc # "error"
    /\ pc \in {"loop", "done"} =>
          /\ k <= NTime
          /\ Len(calls) = k + (IF Masked THEN 1 ELSE 0)
          /\ \A p \in 1..k : LoopCall(p).kind = "loop"
          /\ k >= 1 => LoopCall(1).t = (IF go_backwards THEN NTime - 1 ELSE 0)
          /\ \A p \in 2..k :
                LoopCall(p).t = LoopCall(p - 1).t + (IF go_backwards THEN -1 ELSE 1)
          /\ \A p, q \in 1..k : p # q => LoopCall(p).t # LoopCall(q).t
    /\ pc = "done" =>
          /\ k = NTime
          /\ {LoopCall(p).t : p \in 1..k} = 0..(NTime - 1)
          /\ outputs.dims[1].size = NSamples
          /\ outputs.dims[2].size = NTime
          /\ \A s \in 1..NSamples : Len(outputs.val[s]) = NTime
          /\ last_output.val = Emitted(NTime)
          /\ Len(states) = NStates
          /\ \A i \in 1..NStates : states[i].val = StateAfter(i, NTime)

\* C16 (termination): a valid call with T >= 1 time indices and a step
\* function that does not fail ends in done, after T iterations of the loop
\* that visit every time index once, in ascending order or, with
\* go_backwards, in descending order, and returns last_output, outputs with T
\* entries along the time axis and the final states; it never ends in an
\* error, never ends early and never visits a time index twice.
C16_RunsToDone ==
    /\ [](ValidCall => LoopInOrder)
    /\ ValidCall ~> (pc = "done")

\* A finished valid masked backward run over three time indices, visited
\* 2, 1, 0.
C16_Witness ==
    /\ pc = "done"
    /\ ValidCall
    /\ Masked
    /\ go_backwards
    /\ NStates = 1
    /\ NTime = 3
    /\ k = 3
    /\ LoopCall(1).t = 2
    /\ LoopCall(2).t = 1
    /\ LoopCall(3).t = 0
    /\ Len(outputs.val[1]) = 3
    /\ last_output.val = Emitted(3)
====
